---- MODULE Spec2Model ----
(***************************************************************************)
(* SimpleVector<Type> (simple_vector.h) over ArrayPtr<Type> (array_ptr.h). *)
(*                                                                         *)
(* The heap is a function from allocation ids to the contents of the       *)
(* array allocated there (<<>> when nothing is allocated at that id).      *)
(* A pointer is an allocation id or Null; a position inside an array is a  *)
(* 0-based offset from its first element.  Type is modelled as a plain     *)
(* value type whose move is a copy (int).                                  *)
(***************************************************************************)
EXTENDS Integers, Sequences, FiniteSets, TLC

\* ------------------------------------------------------------------ bounds
MaxCap == 2
MaxPush == 6
MaxLen == 4
MaxBuf == 2

\* --------------------------------------------------------------- constants
Null == 0
Default == 0
Indeterminate == -1
SizeMod == 2 ^ 16
Values == {0, 1}
Slots == {1, 2}
Ids == 1 .. 3

VARIABLES
    heap,     \* Ids -> Seq(Values): the arrays allocated by new Type[n]()
    vec,      \* Slots -> [ptr, size, cap]: ptr_.raw_ptr_, size_, capacity_
    alive,    \* Slots -> BOOLEAN: the SimpleVector object exists
    fault,    \* "none", or how the program left defined behaviour
    dfree,    \* delete[] was applied to an allocation that was not live
    last,     \* the last operation: <<name, target, source>> when it involved two
              \* vectors or was a noted call, else <<"op", 0, 0>>
    saved,    \* what a specification keeps to compare with: the values pushed
              \* so far, or the vector as an Insert found it
    aptr,     \* ArrayPtr objects of the buffer-level specification: raw_ptr_
    araw      \* raw handles given out by Release() and not yet adopted or deleted

vars == <<heap, vec, alive, fault, dfree, last, saved, aptr, araw>>

\* ============================================================ raw memory
\* A memory is [h |-> heap, ub |-> an access left the array, df |-> double free].
Mem(h) == [h |-> h, ub |-> FALSE, df |-> FALSE]

Live(h, p) == p # Null /\ h[p] # <<>>

BufLen(h, p) == IF p = Null THEN 0 ELSE Len(h[p])

InBuf(h, p, i) == p # Null /\ i >= 0 /\ i < BufLen(h, p)

\* raw_ptr_[i] read
ReadAt(h, p, i) == IF InBuf(h, p, i) THEN h[p][i + 1] ELSE Indeterminate

\* raw_ptr_[i] = v
WriteAt(m, p, i, v) ==
    IF InBuf(m.h, p, i)
    THEN [m EXCEPT !.h[p][i + 1] = v]
    ELSE [m EXCEPT !.ub = TRUE]

\* dst[j] = std::move(src[i])
MoveElem(m, src, i, dst, j) ==
    LET m1 == IF InBuf(m.h, src, i) THEN m ELSE [m EXCEPT !.ub = TRUE]
    IN  WriteAt(m1, dst, j, ReadAt(m.h, src, i))

\* std::copy / std::move(first, last, d_first): front to back
RECURSIVE MoveRange(_, _, _, _, _, _)
MoveRange(m, src, first, lst, dst, dfirst) ==
    IF first >= lst
    THEN IF first > lst THEN [m EXCEPT !.ub = TRUE] ELSE m
    ELSE MoveRange(MoveElem(m, src, first, dst, dfirst), src, first + 1, lst,
                   dst, dfirst + 1)

\* std::copy_backward / std::move_backward(first, last, d_last): back to front
RECURSIVE MoveBackward(_, _, _, _, _)
MoveBackward(m, p, first, lst, dlast) ==
    IF first >= lst
    THEN IF first > lst THEN [m EXCEPT !.ub = TRUE] ELSE m
    ELSE MoveBackward(MoveElem(m, p, lst - 1, p, dlast - 1), p, first, lst - 1,
                      dlast - 1)

\* =============================================================== ArrayPtr
HasFree(h) == \E i \in Ids : h[i] = <<>>

FreeId(h) == CHOOSE i \in Ids : h[i] = <<>> /\ \A j \in Ids : h[j] = <<>> => i <= j

\* ArrayPtr(size_t size): nullptr for 0, else new Type[size]()
ArrayPtrNew(m, n) ==
    IF n = 0
    THEN [m |-> m, p |-> Null]
    ELSE LET id == FreeId(m.h)
         IN  [m |-> [m EXCEPT !.h[id] = [i \in 1 .. n |-> Default]], p |-> id]

\* a destructor that frees nothing
ArrayPtrDeleteLeak(m, p) == m

\* ~ArrayPtr(): delete[] raw_ptr_
ArrayPtrDelete(m, p) ==
    IF p = Null THEN m
    ELSE IF m.h[p] = <<>> THEN [m EXCEPT !.df = TRUE]
    ELSE [m EXCEPT !.h[p] = <<>>]

\* =========================================================== SimpleVector
EmptyVec == [ptr |-> Null, size |-> 0, cap |-> 0]

\* begin() - ptr_.Get() and end() - ptr_.Get(); end() of a null buffer is nullptr
BeginOff(s) == 0

EndOff(s) == IF s.ptr = Null THEN 0 ELSE s.size

\* a growth policy that adds one slot
GrowCapPlusOne(c) == c + 1

\* (capacity_ == 0) ? 1 : (capacity_ * 2)
GrowCap(c) == IF c = 0 THEN 1 ELSE (c * 2) % SizeMod

\* void Reserve(size_t new_capacity)
Reserve(m, s, n) ==
    IF n > s.cap
    THEN LET a  == ArrayPtrNew(m, n)
             m1 == MoveRange(a.m, s.ptr, BeginOff(s), EndOff(s), a.p, 0)
         IN  [m |-> ArrayPtrDelete(m1, s.ptr),
              s |-> [s EXCEPT !.ptr = a.p, !.cap = n]]
    ELSE [m |-> m, s |-> s]

\* the loop of Resize: *it = Type() for it in [end(), ptr_.Get() + new_size)
RECURSIVE FillDefault(_, _, _, _)
FillDefault(m, p, from, to) ==
    IF from >= to THEN m
    ELSE FillDefault(WriteAt(m, p, from, Default), p, from + 1, to)

\* void Resize(size_t new_size)
Resize(m, s, n) ==
    LET r  == IF n > s.cap THEN Reserve(m, s, n) ELSE [m |-> m, s |-> s]
        m1 == IF n > r.s.size
              THEN FillDefault(r.m, r.s.ptr, EndOff(r.s), n)
              ELSE r.m
    IN  [m |-> m1, s |-> [r.s EXCEPT !.size = n]]

\* void PushBack(const Type& v) / PushBack(Type&& v)
PushBack(m, s, v) ==
    LET r == IF s.size = s.cap
             THEN Reserve(m, s, GrowCap(s.cap))
             ELSE [m |-> m, s |-> s]
    IN  [m |-> WriteAt(r.m, r.s.ptr, r.s.size, v),
         s |-> [r.s EXCEPT !.size = (@ + 1) % SizeMod]]

\* void PopBack(): assert(size_ != 0); Resize(size_ - 1)
PopBackAssert(s) == s.size # 0

PopBack(m, s) == Resize(m, s, (s.size - 1) % SizeMod)

\* assert(pos >= begin() && pos <= end()) of Insert
InsertAssert(s, pos) == pos >= BeginOff(s) /\ pos <= EndOff(s)

\* Iterator Insert(ConstIterator pos, const Type& v) / Insert(pos, Type&& v)
Insert(m, s, pos, v) ==
    LET posI == pos - BeginOff(s)
        r    == IF s.size = s.cap
                THEN Reserve(m, s, GrowCap(s.cap))
                ELSE [m |-> m, s |-> s]
        s1   == [r.s EXCEPT !.size = (@ + 1) % SizeMod]
        frst == BeginOff(s1) + posI
        lst  == EndOff(s1) - 1
        m1   == MoveBackward(r.m, s1.ptr, frst, lst, EndOff(s1))
        it   == EndOff(s1) - (lst - frst) - 1
    IN  [m |-> WriteAt(m1, s1.ptr, it, v), s |-> s1, it |-> it]

\* assert(pos >= begin() && pos <= end()) of Erase
EraseAssert(s, pos) == pos >= BeginOff(s) /\ pos <= EndOff(s)

\* Iterator Erase(ConstIterator pos)
Erase(m, s, pos) ==
    [m  |-> MoveRange(m, s.ptr, pos + 1, EndOff(s), s.ptr, pos),
     s  |-> [s EXCEPT !.size = (@ - 1) % SizeMod],
     it |-> pos]

\* void Clear()
Clear(s) == [s EXCEPT !.size = 0]

\* explicit SimpleVector(size_t size)
SizeCtor(m, n) ==
    LET a == ArrayPtrNew(m, n)
    IN  [m |-> a.m, s |-> [ptr |-> a.p, size |-> n, cap |-> n]]

\* the loops of SimpleVector(size, value) and SimpleVector(initializer_list)
RECURSIVE WriteAll(_, _, _, _)
WriteAll(m, p, i, vs) ==
    IF i >= Len(vs) THEN m
    ELSE WriteAll(WriteAt(m, p, i, vs[i + 1]), p, i + 1, vs)

\* SimpleVector(std::initializer_list<Type> init)
ListCtor(m, vs) ==
    LET a == ArrayPtrNew(m, Len(vs))
    IN  [m |-> WriteAll(a.m, a.p, 0, vs),
         s |-> [ptr |-> a.p, size |-> Len(vs), cap |-> Len(vs)]]

\* SimpleVector(size_t size, const Type& value)
FillCtor(m, n, v) == ListCtor(m, [i \in 1 .. n |-> v])

\* SimpleVector(ReserveProxyObj rpo)
ReserveCtor(m, n) == Reserve(m, EmptyVec, n)

\* a copy that takes the source's pointer instead of a new array
CopyCtorShare(m, sv) == [m |-> m, s |-> [ptr |-> sv.ptr, size |-> sv.size, cap |-> sv.size]]

\* SimpleVector(const SimpleVector& sv)
CopyCtor(m, sv) ==
    LET a == ArrayPtrNew(m, sv.size)
    IN  [m |-> MoveRange(a.m, sv.ptr, BeginOff(sv), EndOff(sv), a.p, 0),
         s |-> [ptr |-> a.p, size |-> sv.size, cap |-> sv.size]]

\* SimpleVector& operator=(const SimpleVector& rhs); the temporary takes the
\* old buffer in the swap and deletes it
CopyAssign(m, s, rhs) ==
    LET a  == ArrayPtrNew(m, rhs.size)
        m1 == MoveRange(a.m, rhs.ptr, BeginOff(rhs), EndOff(rhs), a.p, 0)
    IN  [m |-> ArrayPtrDelete(m1, s.ptr),
         s |-> [ptr |-> a.p, size |-> rhs.size, cap |-> rhs.size]]

\* ptr_.swap(sv.ptr_) on the vectors d and c of the function v
SwapPtr(v, d, c) == [v EXCEPT ![d].ptr = v[c].ptr, ![c].ptr = v[d].ptr]

\* size_ = std::exchange(sv.size_, 0), read and written in the code's order
ExchangeSizeInto(v, d, c, field) ==
    LET old == v[c].size
        v1  == [v EXCEPT ![c].size = 0]
    IN  IF field = "size" THEN [v1 EXCEPT ![d].size = old]
                          ELSE [v1 EXCEPT ![d].cap = old]

\* SimpleVector(SimpleVector&& sv) and operator=(SimpleVector&& rhs): the same
\* three statements, the constructor starting from the default members
MoveInto(v, d, c) ==
    ExchangeSizeInto(ExchangeSizeInto(SwapPtr(v, d, c), d, c, "size"), d, c, "cap")

\* void swap(SimpleVector& sv)
SwapVec(v, d, c) == [v EXCEPT ![d] = v[c], ![c] = v[d]]

\* ================================================= the program's state
\* the logical sequence [0, size) as operator[] reads it
ElemsOf(h, s) == [i \in 1 .. s.size |-> ReadAt(h, s.ptr, i - 1)]

Elems(c) == ElemsOf(heap, vec[c])

SeqsUpTo(n) == UNION {[1 .. k -> Values] : k \in 0 .. n}

NoFault == fault = "none"

\* Addresses carry no meaning.  After every operation the allocations are
\* renumbered in the order the vectors refer to them (vector 1's buffer first),
\* then the remaining live ones, then the free ids.
RefOrder(v) ==
    LET p1 == v[1].ptr
        p2 == v[2].ptr
    IN  (IF p1 # Null THEN <<p1>> ELSE <<>>)
        \o (IF p2 # Null /\ p2 # p1 THEN <<p2>> ELSE <<>>)

IdSeq == [i \in Ids |-> i]

\* the old id of every new id
IdOrder(h, v) ==
    LET refs == RefOrder(v)
        held(i) == \E k \in 1 .. Len(refs) : refs[k] = i
        liveRest(i) == ~held(i) /\ h[i] # <<>>
        freeRest(i) == ~held(i) /\ h[i] = <<>>
    IN  refs \o SelectSeq(IdSeq, liveRest) \o SelectSeq(IdSeq, freeRest)

\* the new id of vector 1's buffer and of vector 2's, given the old ones
NewId1(p1) == IF p1 = Null THEN Null ELSE 1

NewId2(p1, p2) ==
    IF p2 = Null THEN Null
    ELSE IF p2 = p1 THEN NewId1(p1)
    ELSE IF p1 = Null THEN 1 ELSE 2

\* the heap under the new ids; nothing moves when the ids are already in order
RenumberHeap(h, v) ==
    LET p1 == v[1].ptr
        p2 == v[2].ptr
    IN  IF \A i \in Ids : i = p1 \/ i = p2 \/ h[i] = <<>>
        THEN IF p1 = NewId1(p1) /\ p2 = NewId2(p1, p2)
             THEN h
             ELSE [k \in Ids |-> IF k = NewId1(p1) THEN h[p1]
                                 ELSE IF k = NewId2(p1, p2) THEN h[p2]
                                 ELSE <<>>]
        ELSE LET order == IdOrder(h, v)
             IN  [k \in Ids |-> h[order[k]]]

RenumberVec(h, v) ==
    LET p1 == v[1].ptr
        p2 == v[2].ptr
    IN  IF p1 = NewId1(p1) /\ p2 = NewId2(p1, p2)
        THEN v
        ELSE [v EXCEPT ![1].ptr = NewId1(p1), ![2].ptr = NewId2(p1, p2)]

\* What an operation leaves behind.  ok: its assert held; m: the memory it
\* produced; v1, al1: the vectors after it; l: the operation and its objects.
\* An access outside an array is undefined behaviour: the build either stops
\* there ("crash") or carries on with what the in-bounds accesses did ("ub");
\* nothing is said about the program after either.
Commit(ok, m, v1, al1, l) ==
    /\ NoFault
    /\ last' = l
    /\ \E r \in {[m |-> m, v |-> v1]} :
       \E o \in (IF ~ok THEN {"assert"} ELSE IF r.m.ub THEN {"ub", "crash"} ELSE {"none"}) :
          /\ fault' = o
          /\ IF o \in {"assert", "crash"}
             THEN UNCHANGED <<heap, vec, alive, dfree>>
             ELSE /\ heap' = RenumberHeap(r.m.h, r.v)
                  /\ vec' = RenumberVec(r.m.h, r.v)
                  /\ alive' = al1
                  /\ dfree' = (dfree \/ r.m.df)
    /\ UNCHANGED <<aptr, araw>>

\* what last holds after an operation on one vector
Quiet == <<"op", 0, 0>>

\* an operation on the one vector c that returns r = [m, s]
CommitVec(ok, c, r, l) == Commit(ok, r.m, [vec EXCEPT ![c] = r.s], alive, l)

\* a constructor of the vector c
CommitNew(c, r, l) ==
    Commit(TRUE, r.m, [vec EXCEPT ![c] = r.s], [alive EXCEPT ![c] = TRUE], l)

\* new Type[n]() finds memory: n within the bound and an id to give out
CanAlloc(n, bound) == n <= bound /\ (n > 0 => HasFree(heap))

Init ==
    /\ heap = [i \in Ids |-> <<>>]
    /\ vec = [c \in Slots |-> EmptyVec]
    /\ alive = [c \in Slots |-> FALSE]
    /\ fault = "none"
    /\ dfree = FALSE
    /\ last = <<"init", 0, 0>>
    /\ saved = <<>>
    /\ aptr = <<>>
    /\ araw = {}

\* ------------------------------------------------------------ constructors
DefaultCtorAct(c) ==
    /\ ~alive[c]
    /\ CommitNew(c, [m |-> Mem(heap), s |-> EmptyVec], Quiet)
    /\ UNCHANGED saved

ReserveCtorAct(c, n, bound) ==
    /\ ~alive[c] /\ CanAlloc(n, bound)
    /\ CommitNew(c, ReserveCtor(Mem(heap), n), Quiet)
    /\ UNCHANGED saved

SizeCtorAct(c, n, bound) ==
    /\ ~alive[c] /\ CanAlloc(n, bound)
    /\ CommitNew(c, SizeCtor(Mem(heap), n), Quiet)
    /\ UNCHANGED saved

FillCtorAct(c, n, v, bound) ==
    /\ ~alive[c] /\ CanAlloc(n, bound)
    /\ CommitNew(c, FillCtor(Mem(heap), n, v), Quiet)
    /\ UNCHANGED saved

ListCtorAct(c, vs, bound) ==
    /\ ~alive[c] /\ CanAlloc(Len(vs), bound)
    /\ CommitNew(c, ListCtor(Mem(heap), vs), Quiet)
    /\ UNCHANGED saved

CopyCtorAct(d, c) ==
    /\ ~alive[d] /\ alive[c] /\ CanAlloc(vec[c].size, MaxCap)
    /\ CommitNew(d, CopyCtor(Mem(heap), vec[c]), <<"CopyCtor", d, c>>)
    /\ UNCHANGED saved

MoveCtorAct(d, c) ==
    /\ ~alive[d] /\ alive[c]
    /\ Commit(TRUE, Mem(heap), MoveInto([vec EXCEPT ![d] = EmptyVec], d, c),
              [alive EXCEPT ![d] = TRUE], <<"MoveCtor", d, c>>)
    /\ UNCHANGED saved

\* ~SimpleVector(): the member ptr_ is destroyed
DestroyAct(c) ==
    /\ alive[c]
    /\ Commit(TRUE, ArrayPtrDelete(Mem(heap), vec[c].ptr), [vec EXCEPT ![c] = EmptyVec],
              [alive EXCEPT ![c] = FALSE], Quiet)
    /\ UNCHANGED saved

\* ------------------------------------------------------------- assignments
CopyAssignAct(d, c) ==
    /\ alive[d] /\ alive[c] /\ CanAlloc(vec[c].size, MaxCap)
    /\ CommitVec(TRUE, d, CopyAssign(Mem(heap), vec[d], vec[c]), <<"CopyAssign", d, c>>)
    /\ UNCHANGED saved

MoveAssignAct(d, c) ==
    /\ alive[d] /\ alive[c]
    /\ Commit(TRUE, Mem(heap), MoveInto(vec, d, c), alive, <<"MoveAssign", d, c>>)
    /\ UNCHANGED saved

SwapAct(d, c) ==
    /\ alive[d] /\ alive[c]
    /\ Commit(TRUE, Mem(heap), SwapVec(vec, d, c), alive, <<"swap", 0, 0>>)
    /\ UNCHANGED saved

\* ---------------------------------------------------------------- mutators
\* the capacity PushBack and Insert ask Reserve for stays within the bound
CanGrow(s, bound) == s.size < bound /\ (s.size = s.cap => CanAlloc(GrowCap(s.cap), bound))

PushBackAct(c, v, bound) ==
    /\ alive[c] /\ CanGrow(vec[c], bound)
    /\ CommitVec(TRUE, c, PushBack(Mem(heap), vec[c], v), Quiet)
    /\ UNCHANGED saved

PopBackAct(c) ==
    /\ alive[c] /\ vec[c].size > 0
    /\ CommitVec(PopBackAssert(vec[c]), c, PopBack(Mem(heap), vec[c]), Quiet)
    /\ UNCHANGED saved

InsertAct(c, pos, v, bound) ==
    /\ alive[c] /\ CanGrow(vec[c], bound)
    /\ pos <= vec[c].size
    /\ CommitVec(InsertAssert(vec[c], pos), c, Insert(Mem(heap), vec[c], pos, v),
                 Quiet)
    /\ UNCHANGED saved

EraseAct(c, pos) ==
    /\ alive[c]
    /\ pos < vec[c].size
    /\ CommitVec(EraseAssert(vec[c], pos), c, Erase(Mem(heap), vec[c], pos),
                 Quiet)
    /\ UNCHANGED saved

ClearAct(c) ==
    /\ alive[c]
    /\ CommitVec(TRUE, c, [m |-> Mem(heap), s |-> Clear(vec[c])], Quiet)
    /\ UNCHANGED saved

ResizeAct(c, n, bound) ==
    /\ alive[c] /\ CanAlloc(n, bound)
    /\ CommitVec(TRUE, c, Resize(Mem(heap), vec[c], n), Quiet)
    /\ UNCHANGED saved

\* the same call, with the vector and the requested size noted in last
ResizeNotedAct(c, n, bound) ==
    /\ alive[c] /\ CanAlloc(n, bound)
    /\ CommitVec(TRUE, c, Resize(Mem(heap), vec[c], n), <<"Resize", c, n>>)
    /\ UNCHANGED saved

ReserveAct(c, n, bound) ==
    /\ alive[c] /\ CanAlloc(n, bound)
    /\ CommitVec(TRUE, c, Reserve(Mem(heap), vec[c], n), Quiet)
    /\ UNCHANGED saved

\* assert(index < size_) of operator[]
IndexAssert(s, i) == i < s.size

\* v[i] = x through Type& operator[](size_t index)
SetAt(m, s, i, x) == [m |-> WriteAt(m, s.ptr, i, x), s |-> s]

SetAtAct(c, i, x) ==
    /\ alive[c]
    /\ i < vec[c].size
    /\ CommitVec(IndexAssert(vec[c], i), c, SetAt(Mem(heap), vec[c], i, x), Quiet)
    /\ UNCHANGED saved

\* every operation but Resize
NextButResize ==
    \/ \E c \in Slots : DefaultCtorAct(c)
    \/ \E c \in Slots, n \in 0 .. MaxCap : ReserveCtorAct(c, n, MaxCap)
    \/ \E c \in Slots, n \in 0 .. MaxCap : SizeCtorAct(c, n, MaxCap)
    \/ \E c \in Slots, n \in 0 .. MaxCap, v \in Values : FillCtorAct(c, n, v, MaxCap)
    \/ \E c \in Slots, vs \in SeqsUpTo(MaxCap) : ListCtorAct(c, vs, MaxCap)
    \/ \E d \in Slots, c \in Slots : CopyCtorAct(d, c)
    \/ \E d \in Slots, c \in Slots : MoveCtorAct(d, c)
    \/ \E c \in Slots : DestroyAct(c)
    \/ \E d \in Slots, c \in Slots : CopyAssignAct(d, c)
    \/ \E d \in Slots, c \in Slots : MoveAssignAct(d, c)
    \/ \E d \in Slots, c \in Slots : SwapAct(d, c)
    \/ \E c \in Slots, v \in Values : PushBackAct(c, v, MaxCap)
    \/ \E c \in Slots : PopBackAct(c)
    \/ \E c \in Slots, pos \in 0 .. MaxCap, v \in Values : InsertAct(c, pos, v, MaxCap)
    \/ \E c \in Slots, pos \in 0 .. MaxCap : EraseAct(c, pos)
    \/ \E c \in Slots : ClearAct(c)
    \/ \E c \in Slots, n \in 0 .. MaxCap : ReserveAct(c, n, MaxCap)
    \/ \E c \in Slots, i \in 0 .. MaxCap, x \in Values : SetAtAct(c, i, x)

Next ==
    \/ NextButResize
    \/ \E c \in Slots, n \in 0 .. MaxCap : ResizeAct(c, n, MaxCap)

\* two vectors under every public operation called as documented
Spec == Init /\ [][Next]_vars

NextResize ==
    \/ NextButResize
    \/ \E c \in Slots, n \in 0 .. MaxCap : ResizeNotedAct(c, n, MaxCap)

\* the same, with every Resize call noted
SpecResize == Init /\ [][NextResize]_vars

\* no read ever produced an indeterminate value that was then stored
TypeOK ==
    /\ \A i \in Ids : \A k \in 1 .. Len(heap[i]) : heap[i][k] \in Values
    /\ fault \in {"none", "ub", "crash", "assert"}

\* ----------------------------------------------------------------- views
\* what a caller can observe of the vector c: GetSize(), GetCapacity() and
\* the array its elements are read from
View(h, v, al, c) ==
    <<al[c], v[c].size, v[c].cap, IF v[c].ptr = Null THEN <<>> ELSE h[v[c].ptr]>>

\* the step just taken was the completed operation l
Did(l) == last' = l /\ fault' = "none"

\* ====================================================== claims on Spec
\* C1: in every reachable state every live vector has 0 <= size <= capacity.
\* Violated: a move leaves the destination with its size and capacity 0.
C1_SizeWithinCapacity ==
    NoFault =>
        \A c \in Slots : alive[c] => (0 <= vec[c].size /\ vec[c].size <= vec[c].cap)

\* C2: in every reachable state the capacity of every live vector is the
\* length of the array it owns (0 for a null buffer).
\* Violated: a move swaps the buffers and leaves the source's capacity as it was.
C2_CapacityIsBufferLength ==
    NoFault =>
        \A c \in Slots : alive[c] => vec[c].cap = BufLen(heap, vec[c].ptr)

\* C3: after b = std::move(a), by construction or assignment, b has a's former
\* elements, size and capacity, and a has size 0 and capacity 0.
\* Violated: b's capacity is 0 and a keeps its capacity.
C3_MoveTransfersAll ==
    [][\A d \in Slots, c \in Slots :
          (d # c /\ (Did(<<"MoveCtor", d, c>>) \/ Did(<<"MoveAssign", d, c>>)))
          => /\ ElemsOf(heap', vec'[d]) = Elems(c)
             /\ vec'[d].size = vec[c].size
             /\ vec'[d].cap = vec[c].cap
             /\ vec'[c].size = 0
             /\ vec'[c].cap = 0]_vars

\* C7: Resize(n) on any vector with size s and capacity c completes with
\* size n, elements [0, min(s, n)) unchanged, elements [s, n) default, and
\* capacity n if n > c and c otherwise.
\* Stated over SpecResize, where last names the vector and the size of each
\* Resize call.  Violated on a vector a move left behind: its capacity is not
\* its buffer's length.
C7_ResizeContract ==
    [][\A c \in Slots, n \in 0 .. MaxCap :
          last' = <<"Resize", c, n>>
          => /\ fault' = "none"
             /\ vec'[c].size = n
             /\ \A i \in 1 .. n :
                   ElemsOf(heap', vec'[c])[i]
                      = IF i <= vec[c].size THEN Elems(c)[i] ELSE Default
             /\ vec'[c].cap = IF n > vec[c].cap THEN n ELSE vec[c].cap]_vars

\* C8: every allocation is referenced by at most one ArrayPtr, is freed once
\* and only by its owner, and is not left allocated without an owner.
C8_SoleOwnership ==
    /\ ~dfree
    /\ \A c \in Slots : ~alive[c] => vec[c].ptr = Null
    /\ \A c \in Slots : vec[c].ptr # Null => Live(heap, vec[c].ptr)
    /\ \A c \in Slots, d \in Slots :
          (c # d /\ vec[c].ptr # Null) => vec[c].ptr # vec[d].ptr
    /\ \A i \in Ids : heap[i] # <<>> => \E c \in Slots : alive[c] /\ vec[c].ptr = i

\* C8 witness: a move assignment between two vectors that both owned a buffer
\* has exchanged the buffers.
C8_Witness ==
    \E d \in Slots, c \in Slots :
        /\ d # c /\ last = <<"MoveAssign", d, c>> /\ NoFault
        /\ vec[d].ptr # Null /\ vec[c].ptr # Null

\* the copy operations' effect on the destination d and the source c
CopyPost(d, c) ==
    /\ vec'[d].size = vec[c].size
    /\ vec'[d].cap = vec[c].size
    /\ ElemsOf(heap', vec'[d]) = Elems(c)
    /\ vec'[c].size = vec[c].size
    /\ ElemsOf(heap', vec'[c]) = Elems(c)
    /\ (d # c /\ vec'[d].ptr # Null) => vec'[d].ptr # vec'[c].ptr

\* an operation on one vector leaves every other vector as it was: a step
\* that is no copy, move or swap changes what callers see of one vector at most
Independent ==
    last' = Quiet
    => \A c \in Slots, d \in Slots :
          (d # c /\ View(heap', vec', alive', c) # View(heap, vec, alive, c))
          => View(heap', vec', alive', d) = View(heap, vec, alive, d)

\* C6 as stated: a copy gives the destination size == capacity == source.size
\* and the source's elements in a separate allocation, leaves the source's
\* size, capacity and elements unchanged (self-assignment included), and the
\* two are independent afterwards.
\* Violated by self-assignment with spare capacity: capacity becomes size.
C6_CopyAsStated ==
    [][/\ \A d \in Slots, c \in Slots :
             (Did(<<"CopyCtor", d, c>>) \/ Did(<<"CopyAssign", d, c>>))
             => (CopyPost(d, c) /\ vec'[c].cap = vec[c].cap)
       /\ Independent]_vars

\* C6 amended: as stated, except that the source's capacity is unchanged only
\* when the source is another vector; self-assignment sets capacity to size.
C6_CopyAmended ==
    [][/\ \A d \in Slots, c \in Slots :
             (Did(<<"CopyCtor", d, c>>) \/ Did(<<"CopyAssign", d, c>>))
             => (CopyPost(d, c) /\ (d # c => vec'[c].cap = vec[c].cap))
       /\ Independent]_vars

\* C6 witness: a copy assignment from another vector that has spare capacity
\* has given the destination an exact-fit copy.
C6_Witness ==
    \E d \in Slots, c \in Slots :
        /\ d # c /\ last = <<"CopyAssign", d, c>> /\ NoFault
        /\ vec[c].size > 0 /\ vec[c].cap > vec[c].size
        /\ vec[d].cap = vec[c].size /\ Elems(d) = Elems(c)

\* ================================ C4: PushBack on a default-constructed vector
\* SimpleVector() noexcept = default: the members' initialisers
InitPush ==
    /\ heap = [i \in Ids |-> <<>>]
    /\ vec = [c \in Slots |-> EmptyVec]
    /\ alive = [c \in Slots |-> c = 1]
    /\ fault = "none"
    /\ dfree = FALSE
    /\ last = <<"init", 0, 0>>
    /\ saved = <<>>
    /\ aptr = <<>>
    /\ araw = {}

\* PushBack(v) on vector 1; saved collects the values pushed, in order
PushOnlyAct(v) ==
    /\ alive[1] /\ vec[1].size < MaxPush /\ HasFree(heap)
    /\ CommitVec(TRUE, 1, PushBack(Mem(heap), vec[1], v), Quiet)
    /\ saved' = Append(saved, v)

NextPush == \E v \in Values : PushOnlyAct(v)

SpecPush == InitPush /\ [][NextPush]_vars

\* the smallest power of two that is at least k
Pow2Ceil(k) ==
    LET pows == {2 ^ e : e \in 0 .. MaxPush + 1}
    IN  CHOOSE p \in pows : p >= k /\ \A q \in pows : q >= k => p <= q

\* C4: after k PushBack calls on a default-constructed vector the size is k, the
\* elements are the pushed values in push order, and the capacity is 0 for
\* k = 0 and the smallest power of two >= k otherwise.
C4_PushBackGrowth ==
    /\ NoFault
    /\ vec[1].size = Len(saved)
    /\ Elems(1) = saved
    /\ vec[1].cap = IF Len(saved) = 0 THEN 0 ELSE Pow2Ceil(Len(saved))

\* C4 witness: the fifth push found size == capacity == 4 and doubled it.
C4_Witness == Len(saved) = 5 /\ vec[1].size = 5 /\ vec[1].cap = 8

\* ===================================== C5: Insert, then Erase what it returned
\* Insert(begin() + pos, v) on the vector c; saved keeps what the call found
\* and last the iterator it returned
InsertRoundAct(c, pos, v) ==
    /\ alive[c] /\ CanGrow(vec[c], MaxCap)
    /\ pos <= vec[c].size
    /\ \E r \in {Insert(Mem(heap), vec[c], pos, v)} :
          CommitVec(InsertAssert(vec[c], pos), c, r, <<"Insert", c, r.it>>)
    /\ saved' = [elems |-> Elems(c), size |-> vec[c].size, cap |-> vec[c].cap,
                 pos |-> pos]

\* Erase(it) with the iterator the Insert just before returned
EraseReturnedAct ==
    /\ last[1] = "Insert"
    /\ \E c \in {last[2]}, r \in {Erase(Mem(heap), vec[last[2]], last[3])} :
          CommitVec(EraseAssert(vec[c], last[3]), c, r, <<"EraseReturned", c, r.it>>)
    /\ UNCHANGED saved

NextRound ==
    \/ \E c \in Slots : DefaultCtorAct(c)
    \/ \E c \in Slots, n \in 0 .. MaxCap : ReserveCtorAct(c, n, MaxCap)
    \/ \E c \in Slots, n \in 0 .. MaxCap : SizeCtorAct(c, n, MaxCap)
    \/ \E c \in Slots, n \in 0 .. MaxCap, v \in Values : FillCtorAct(c, n, v, MaxCap)
    \/ \E c \in Slots, vs \in SeqsUpTo(MaxCap) : ListCtorAct(c, vs, MaxCap)
    \/ \E d \in Slots, c \in Slots : CopyCtorAct(d, c)
    \/ \E d \in Slots, c \in Slots : MoveCtorAct(d, c)
    \/ \E c \in Slots, v \in Values : PushBackAct(c, v, MaxCap)
    \/ \E c \in Slots, n \in 0 .. MaxCap : ResizeAct(c, n, MaxCap)
    \/ \E c \in Slots, n \in 0 .. MaxCap : ReserveAct(c, n, MaxCap)
    \/ \E c \in Slots : ClearAct(c)
    \/ \E c \in Slots, pos \in 0 .. MaxCap, v \in Values : InsertRoundAct(c, pos, v)
    \/ EraseReturnedAct

\* vectors built by the constructors, PushBack, Resize, Reserve and Clear, on
\* which an Insert is followed by Erase at the returned position
SpecRound == Init /\ [][NextRound]_vars

\* C5: on a vector reached through constructors, PushBack, Resize, Reserve and
\* Clear, Insert(begin() + p, v) followed by Erase at the position Insert
\* returned completes and leaves the size and the sequence [0, size) as they
\* were before the Insert; the capacity may have grown.
\* Violated on a vector built by the move constructor: its capacity is 0, so
\* Insert shifts the elements past the end of its array.
C5_InsertEraseRoundTrip ==
    /\ last[1] \in {"Insert", "EraseReturned"}
       => (fault = "none" /\ last[3] = saved.pos)
    /\ last[1] = "EraseReturned"
       => /\ vec[last[2]].size = saved.size
          /\ Elems(last[2]) = saved.elems
          /\ vec[last[2]].cap >= saved.cap

\* ============================================ C10: what Erase's assert accepts
\* Erase(begin() + pos) with any position a caller may pass, in a build with
\* asserts; last keeps the position and the size the call found
EraseCallAct(pos) ==
    /\ alive[1]
    /\ CommitVec(EraseAssert(vec[1], pos), 1, Erase(Mem(heap), vec[1], pos),
                 <<"Erase", pos, vec[1].size>>)
    /\ UNCHANGED saved

NextAssert ==
    \/ \E vs \in SeqsUpTo(MaxLen) : ListCtorAct(1, vs, MaxLen)
    \/ \E v \in Values : PushBackAct(1, v, MaxLen)
    \/ ClearAct(1)
    \/ DestroyAct(1)
    \/ \E pos \in -1 .. MaxLen + 1 : EraseCallAct(pos)

SpecAssert == Init /\ [][NextAssert]_vars

\* C10: an Erase call gets past the assert only with a position in
\* [begin, end), so a call that got past it found size > 0 and left size - 1.
\* Violated: the assert lets position == end through, also on an empty vector.
C10_EraseAssertExcludesEnd ==
    (last[1] = "Erase" /\ fault # "assert")
    => /\ 0 <= last[2] /\ last[2] < last[3]
       /\ fault = "none"
       /\ vec[1].size = last[3] - 1

\* ============================================================ ArrayPtr alone
APs == {1, 2}

\* ArrayPtr(ArrayPtr&& other): swap with the null member, then null the source
ArrayPtrMoveCtor(a, i, j) ==
    LET a1 == [a EXCEPT ![i] = [live |-> TRUE, raw |-> a[j].raw], ![j].raw = Null]
    IN  [a1 EXCEPT ![j].raw = Null]

\* ArrayPtr& operator=(ArrayPtr&& other)
ArrayPtrMoveAssign(a, i, j) ==
    IF i # j
    THEN LET a1 == [a EXCEPT ![i].raw = a[j].raw, ![j].raw = a[i].raw]
         IN  [a1 EXCEPT ![j].raw = Null]
    ELSE a

\* void swap(ArrayPtr& other)
ArrayPtrSwap(a, i, j) == [a EXCEPT ![i].raw = a[j].raw, ![j].raw = a[i].raw]

\* Type* Release()
ArrayPtrRelease(a, i) == [a EXCEPT ![i].raw = Null]

InitArrayPtr ==
    /\ heap = [i \in Ids |-> <<>>]
    /\ vec = [c \in Slots |-> EmptyVec]
    /\ alive = [c \in Slots |-> FALSE]
    /\ fault = "none"
    /\ dfree = FALSE
    /\ last = <<"init", 0, 0>>
    /\ saved = <<>>
    /\ aptr = [i \in APs |-> [live |-> FALSE, raw |-> Null]]
    /\ araw = {}

\* a step of the ArrayPtr specification: memory m, objects a, handles w
ApCommit(m, a, w, l) ==
    /\ heap' = m.h
    /\ dfree' = (dfree \/ m.df)
    /\ aptr' = a
    /\ araw' = w
    /\ last' = l
    /\ UNCHANGED <<vec, alive, fault, saved>>

ApNewAct(i, n) ==
    /\ ~aptr[i].live /\ (n > 0 => HasFree(heap))
    /\ \E r \in {ArrayPtrNew(Mem(heap), n)} :
          ApCommit(r.m, [aptr EXCEPT ![i] = [live |-> TRUE, raw |-> r.p]], araw,
                   <<"New", i, n>>)

\* explicit ArrayPtr(Type* raw_ptr) on a handle Release() gave out
ApAdoptAct(i, p) ==
    /\ ~aptr[i].live /\ p \in araw
    /\ ApCommit(Mem(heap), [aptr EXCEPT ![i] = [live |-> TRUE, raw |-> p]],
                araw \ {p}, <<"Adopt", i, p>>)

ApMoveCtorAct(i, j) ==
    /\ i # j /\ ~aptr[i].live /\ aptr[j].live
    /\ ApCommit(Mem(heap), ArrayPtrMoveCtor(aptr, i, j), araw, <<"MoveCtor", i, j>>)

ApMoveAssignAct(i, j) ==
    /\ aptr[i].live /\ aptr[j].live
    /\ ApCommit(Mem(heap), ArrayPtrMoveAssign(aptr, i, j), araw, <<"MoveAssign", i, j>>)

ApSwapAct(i, j) ==
    /\ aptr[i].live /\ aptr[j].live
    /\ ApCommit(Mem(heap), ArrayPtrSwap(aptr, i, j), araw, <<"swap", i, j>>)

ApReleaseAct(i) ==
    /\ aptr[i].live
    /\ ApCommit(Mem(heap), ArrayPtrRelease(aptr, i),
                araw \cup ({aptr[i].raw} \ {Null}), <<"Release", i, 0>>)

\* raw_ptr_[k] = v through operator[], k inside the array as its contract asks
ApWriteAct(i, k, v) ==
    /\ aptr[i].live /\ InBuf(heap, aptr[i].raw, k)
    /\ ApCommit(WriteAt(Mem(heap), aptr[i].raw, k, v), aptr, araw, <<"Write", i, k>>)

ApDtorAct(i) ==
    /\ aptr[i].live
    /\ ApCommit(ArrayPtrDelete(Mem(heap), aptr[i].raw),
                [aptr EXCEPT ![i] = [live |-> FALSE, raw |-> Null]], araw,
                <<"Dtor", i, 0>>)

\* the caller of Release() frees the handle itself
RawDeleteAct(p) ==
    /\ p \in araw
    /\ ApCommit(ArrayPtrDelete(Mem(heap), p), aptr, araw \ {p}, <<"delete", 0, p>>)

NextArrayPtr ==
    \/ \E i \in APs, n \in 0 .. MaxBuf : ApNewAct(i, n)
    \/ \E i \in APs, p \in Ids : ApAdoptAct(i, p)
    \/ \E i \in APs, j \in APs : ApMoveCtorAct(i, j)
    \/ \E i \in APs, j \in APs : ApMoveAssignAct(i, j)
    \/ \E i \in APs, j \in APs : ApSwapAct(i, j)
    \/ \E i \in APs : ApReleaseAct(i)
    \/ \E i \in APs, k \in 0 .. MaxBuf, v \in Values : ApWriteAct(i, k, v)
    \/ \E i \in APs : ApDtorAct(i)
    \/ \E p \in Ids : RawDeleteAct(p)

SpecArrayPtr == InitArrayPtr /\ [][NextArrayPtr]_vars

\* C9: a move, by construction or assignment, from another ArrayPtr leaves the
\* destination with the source's allocation and the source null, and a move
\* assignment frees the allocation the destination held before.
\* Violated: operator= nulls the pointer it swapped into the source and
\* frees nothing.
C9_MoveReleasesOld ==
    [][\A i \in APs, j \in APs :
          /\ last' = <<"MoveCtor", i, j>>
             => (aptr'[i].raw = aptr[j].raw /\ aptr'[j].raw = Null)
          /\ (i # j /\ last' = <<"MoveAssign", i, j>>)
             => /\ aptr'[i].raw = aptr[j].raw
                /\ aptr'[j].raw = Null
                /\ aptr[i].raw # Null => heap'[aptr[i].raw] = <<>>]_vars

====
